---------------------------- MODULE Spec2Model ----------------------------
(***************************************************************************)
(* A model of nix-build-rs: the build Config (src/src/config.rs), the tool *)
(* locator (src/src/lib.rs), the assembled `nix build` command line, the   *)
(* cargo change-tracking hints it prints, the classification of the        *)
(* process outcome and the decoding of the tool's JSON output.             *)
(*                                                                         *)
(* Strings and paths are sequences of atoms.  An atom is one character     *)
(* that the code looks at ("/" and "#") or a run of characters it never    *)
(* looks inside ("default.nix", "--json").  A command-line token is one    *)
(* such string.                                                            *)
(***************************************************************************)
EXTENDS Naturals, Sequences, FiniteSets, TLC

VARIABLES
    target,     \* Config.target: the active NixTarget variant
    arg_exprs,  \* Config.arg_exprs: Vec<(String, String)>
    arg_strs,   \* Config.arg_strs:  Vec<(String, String)>
    impure,     \* Config.impure
    calls,      \* history: the setter calls made on this Config, in order
    pc,         \* "config" while the caller configures, "built" right after build()
    env,        \* the process environment: NIX, PATH, the file system, the cwd
    tool,       \* how the external tool behaves when it is run
    cmd,        \* the Command handed to the operating system by the last build()
    hints,      \* the cargo:rerun-if-changed paths printed by the last build()
    result      \* what the last build() returned

vars == <<target, arg_exprs, arg_strs, impure, calls, pc, env, tool, cmd, hints, result>>

config == <<target, arg_exprs, arg_strs, impure>>

-----------------------------------------------------------------------------
(* Bounds of the model.                                                    *)

\* The number of setter calls made on one Config.
MaxCalls == 4

\* The number of elements of the JSON array the tool prints.
MaxElems == 2

-----------------------------------------------------------------------------
(* Strings, options, paths.                                                *)

S(a) == <<a>>

None == [some |-> FALSE]

Some(v) == [some |-> TRUE, val |-> v]

Range(s) == {s[i] : i \in 1..Len(s)}

\* str::split_once: the parts before and after the first occurrence of c.
split_once(s, c) ==
    IF c \in Range(s)
    THEN LET i == CHOOSE k \in 1..Len(s) :
                      s[k] = c /\ \A j \in 1..(k - 1) : s[j] # c
         IN  Some(<<SubSeq(s, 1, i - 1), SubSeq(s, i + 1, Len(s))>>)
    ELSE None

\* Path::is_absolute
is_absolute(p) == p # <<>> /\ p[1] = "/"

\* Path::join: an absolute argument replaces the base.
join(base, p) ==
    IF is_absolute(p) THEN p
    ELSE IF base = <<>> THEN p
    ELSE IF base[Len(base)] = "/" THEN base \o p
    ELSE base \o <<"/">> \o p

\* Path::try_exists(..).ok().unwrap_or_default(): relative paths are looked
\* up from the working directory; the empty path names nothing.
exists(e, p) == p # <<>> /\ join(e.cwd, p) \in e.fs

\* std::fs::canonicalize: the absolute form of a path that exists, an error
\* otherwise.
canonicalize(e, p) == IF exists(e, p) THEN Some(join(e.cwd, p)) ELSE None

-----------------------------------------------------------------------------
(* The tool locator.                                                       *)

NIX_BIN_NAME == S("nix")

\* which::which: the first directory of PATH that holds the binary.
which(e, name) ==
    LET hit(i) == join(e.PATH[i], name) \in e.fs
    IN  IF \E i \in 1..Len(e.PATH) : hit(i)
        THEN LET i == CHOOSE k \in 1..Len(e.PATH) :
                          hit(k) /\ \A j \in 1..(k - 1) : ~hit(j)
             IN  Some(join(e.PATH[i], name))
        ELSE None

\* A locator that searches PATH when the override names nothing.
is_nix_available_fallback(e) ==
    LET found == which(e, NIX_BIN_NAME)
    IN  IF e.NIX.some /\ exists(e, e.NIX.val) THEN e.NIX
        ELSE IF found.some /\ exists(e, found.val) THEN found
        ELSE None

is_nix_available(e) ==
    LET nix == IF e.NIX.some THEN e.NIX ELSE which(e, NIX_BIN_NAME)
    IN  IF nix.some /\ exists(e, nix.val) THEN nix ELSE None

-----------------------------------------------------------------------------
(* The target model and the setters.                                       *)

Function(file) == [kind |-> "Function", val |-> file]

Flake(installable) == [kind |-> "Flake", val |-> installable]

Expr(expr) == [kind |-> "Expr", val |-> expr]

NixTarget_default == Function(S("default.nix"))

Call(op, x, y, b) == [op |-> op, x |-> x, y |-> y, b |-> b]

\* What every setter does besides its own assignment: the call is recorded
\* and the value returned by an earlier build() is gone.
Chained(c) ==
    /\ Len(calls) < MaxCalls
    /\ calls' = Append(calls, c)
    /\ pc' = "config"
    /\ cmd' = None
    /\ hints' = <<>>
    /\ result' = [kind |-> "None"]
    /\ UNCHANGED <<env, tool>>

new ==
    /\ calls # <<>>
    /\ target' = NixTarget_default
    /\ arg_exprs' = <<>>
    /\ arg_strs' = <<>>
    /\ impure' = FALSE
    /\ calls' = <<>>
    /\ pc' = "config"
    /\ cmd' = None
    /\ hints' = <<>>
    /\ result' = [kind |-> "None"]
    /\ UNCHANGED <<env, tool>>

arg_expr(name, value) ==
    /\ arg_exprs' = Append(arg_exprs, <<name, value>>)
    /\ UNCHANGED <<target, arg_strs, impure>>
    /\ Chained(Call("arg_expr", name, value, FALSE))

arg_str(name, value) ==
    /\ arg_strs' = Append(arg_strs, <<name, value>>)
    /\ UNCHANGED <<target, arg_exprs, impure>>
    /\ Chained(Call("arg_str", name, value, FALSE))

target_file(filename) ==
    /\ target' = Function(filename)
    /\ UNCHANGED <<arg_exprs, arg_strs, impure>>
    /\ Chained(Call("target_file", filename, <<>>, FALSE))

\* A setter that leaves an inline expression in place.
target_flake_once(flake) ==
    /\ target' = (IF target.kind = "Expr" THEN target ELSE Flake(flake))
    /\ UNCHANGED <<arg_exprs, arg_strs, impure>>
    /\ Chained(Call("target_flake", flake, <<>>, FALSE))

target_flake(flake) ==
    /\ target' = Flake(flake)
    /\ UNCHANGED <<arg_exprs, arg_strs, impure>>
    /\ Chained(Call("target_flake", flake, <<>>, FALSE))

target_expr(expr) ==
    /\ target' = Expr(expr)
    /\ UNCHANGED <<arg_exprs, arg_strs, impure>>
    /\ Chained(Call("target_expr", expr, <<>>, FALSE))

\* A setter that can only switch the flag on.
set_impure_sticky(b) ==
    /\ impure' = (impure \/ b)
    /\ UNCHANGED <<target, arg_exprs, arg_strs>>
    /\ Chained(Call("impure", <<>>, <<>>, b))

set_impure(b) ==
    /\ impure' = b
    /\ UNCHANGED <<target, arg_exprs, arg_strs>>
    /\ Chained(Call("impure", <<>>, <<>>, b))

-----------------------------------------------------------------------------
(* The invocation builder: the argv and the change-tracking hints.         *)

\* match &self.target: the target's tokens.
TargetArgs(t) ==
    CASE t.kind = "Function" -> <<S("-f"), t.val>>
      [] t.kind = "Flake"    -> <<t.val>>
      [] t.kind = "Expr"     -> <<S("--expr"), t.val>>

RECURSIVE ArgTriples_dedup(_, _)
\* A loop that emits only the last entry of each name.
ArgTriples_dedup(flag, entries) ==
    IF entries = <<>> THEN <<>>
    ELSE (IF \E i \in 2..Len(entries) : entries[i][1] = Head(entries)[1]
          THEN <<>>
          ELSE <<S(flag), Head(entries)[1], Head(entries)[2]>>)
             \o ArgTriples_dedup(flag, Tail(entries))

RECURSIVE ArgTriples(_, _)
\* for (key, val) in entries { cmd.args(&[flag, &key, &val]); }
ArgTriples(flag, entries) ==
    IF entries = <<>> THEN <<>>
    ELSE <<S(flag), Head(entries)[1], Head(entries)[2]>>
             \o ArgTriples(flag, Tail(entries))

\* if self.impure { cmd.arg("--impure"); }
ImpureArgs(imp) == IF imp THEN <<S("--impure")>> ELSE <<>>

\* An assembly that pushes the logging flag before the impure flag.
BuildArgs_logs_first(t, exprs, strs, imp) ==
    <<S("build")>>
        \o <<S("--no-link"), S("--json")>>
        \o TargetArgs(t)
        \o ArgTriples("--arg", exprs)
        \o ArgTriples("--argstr", strs)
        \o <<S("-L")>>
        \o ImpureArgs(imp)
        \o <<S("--experimental-features"), S("nix-command flakes")>>

\* The arguments pushed on the Command, in the order build() pushes them.
BuildArgs(t, exprs, strs, imp) ==
    <<S("build")>>
        \o <<S("--no-link"), S("--json")>>
        \o TargetArgs(t)
        \o ArgTriples("--arg", exprs)
        \o ArgTriples("--argstr", strs)
        \o ImpureArgs(imp)
        \o <<S("-L")>>
        \o <<S("--experimental-features"), S("nix-command flakes")>>

\* The hint of the Function arm: the file name as it was configured.
FunctionHints(e, file) == <<file>>

\* A hint made from the installable's own text, as it is written.
FlakeHints_as_written(e, installable) ==
    LET parts == split_once(installable, "#")
    IN  IF parts.some /\ exists(e, parts.val[1])
        THEN <<join(parts.val[1], S("flake.lock"))>>
        ELSE <<>>

\* The hint of the Flake arm: the working directory, not the installable,
\* is split at '#', and the part before it is canonicalized.
FlakeHints(e, installable) ==
    LET parts == split_once(e.cwd, "#")
    IN  IF parts.some
        THEN LET local_flake == canonicalize(e, parts.val[1])
             IN  IF local_flake.some
                 THEN <<join(local_flake.val, S("flake.lock"))>>
                 ELSE <<>>
        ELSE <<>>

\* The cargo:rerun-if-changed lines printed while the command is assembled.
TargetHints(e, t) ==
    CASE t.kind = "Function" -> FunctionHints(e, t.val)
      [] t.kind = "Flake"    -> FlakeHints(e, t.val)
      [] t.kind = "Expr"     -> <<>>

-----------------------------------------------------------------------------
(* JSON: the documents the tool prints, as trees and as tokens.            *)

JStr(s) == [t |-> "str", v |-> s, m |-> <<>>]

JNum == [t |-> "num", v |-> "7", m |-> <<>>]

\* An object: its members <<key, value>> in the order they are printed.
JObj(members) == [t |-> "obj", v |-> "", m |-> members]

JArr(values) ==
    [t |-> "arr", v |-> "", m |-> [i \in 1..Len(values) |-> <<"", values[i]>>]]

P(c) == <<"p", c>>

RECURSIVE Render(_)
RECURSIVE RenderMembers(_, _)
\* The tokens of a document.
Render(j) ==
    CASE j.t = "str" -> << <<"s", j.v>> >>
      [] j.t = "num" -> << <<"n", j.v>> >>
      [] j.t = "obj" -> <<P("{")>> \o RenderMembers(j.m, TRUE) \o <<P("}")>>
      [] j.t = "arr" -> <<P("[")>> \o RenderMembers(j.m, FALSE) \o <<P("]")>>

RenderMembers(m, keyed) ==
    IF m = <<>> THEN <<>>
    ELSE (IF keyed THEN << <<"s", m[1][1]>>, P(":") >> ELSE <<>>)
             \o Render(m[1][2])
             \o (IF Len(m) > 1 THEN <<P(",")>> ELSE <<>>)
             \o RenderMembers(Tail(m), keyed)

\* What reaches stdout of a document: all of it, all but its last token,
\* a stray token after it, or nothing.
Damaged(ts, damage) ==
    CASE damage = "none"  -> ts
      [] damage = "cut"   -> SubSeq(ts, 1, Len(ts) - 1)
      [] damage = "extra" -> Append(ts, P("]"))
      [] damage = "empty" -> <<>>

-----------------------------------------------------------------------------
(* The result decoder: serde_json::from_slice::<Vec<Derivation>>.          *)

Fail == [ok |-> FALSE, val |-> <<>>, rest |-> <<>>]

Parsed(v, rest) == [ok |-> TRUE, val |-> v, rest |-> rest]

\* A String or a PathBuf: a JSON string and nothing else.
parse_string(ts) ==
    IF ts # <<>> /\ ts[1][1] = "s" THEN Parsed(ts[1][2], Tail(ts)) ELSE Fail

RECURSIVE skip_value(_)
RECURSIVE skip_members(_, _, _, _)
\* serde::de::IgnoredAny: the value of a field the struct does not have.
skip_value(ts) ==
    IF ts = <<>> THEN Fail
    ELSE IF ts[1][1] \in {"s", "n"} THEN Parsed(<<>>, Tail(ts))
    ELSE IF ts[1] = P("[") THEN skip_members(Tail(ts), FALSE, P("]"), TRUE)
    ELSE IF ts[1] = P("{") THEN skip_members(Tail(ts), TRUE, P("}"), TRUE)
    ELSE Fail

skip_next(v, keyed, close) ==
    IF ~v.ok \/ v.rest = <<>> THEN Fail
    ELSE IF v.rest[1] = P(",") THEN skip_members(Tail(v.rest), keyed, close, FALSE)
    ELSE IF v.rest[1] = close THEN Parsed(<<>>, Tail(v.rest))
    ELSE Fail

skip_key(k, close) ==
    IF ~k.ok \/ k.rest = <<>> \/ k.rest[1] # P(":") THEN Fail
    ELSE skip_next(skip_value(Tail(k.rest)), TRUE, close)

skip_members(ts, keyed, close, first) ==
    IF ts = <<>> THEN Fail
    ELSE IF first /\ ts[1] = close THEN Parsed(<<>>, Tail(ts))
    ELSE IF keyed THEN skip_key(parse_string(ts), close)
    ELSE skip_next(skip_value(ts), FALSE, close)

RECURSIVE hashmap_entries(_, _, _)
\* HashMap<String, PathBuf>: each entry is inserted, a later one replacing
\* an earlier one of the same key.
hashmap_insert(key, v, acc) ==
    IF ~v.ok \/ v.rest = <<>> THEN Fail
    ELSE IF v.rest[1] = P(",")
    THEN hashmap_entries(Tail(v.rest), FALSE, (key :> v.val) @@ acc)
    ELSE IF v.rest[1] = P("}") THEN Parsed((key :> v.val) @@ acc, Tail(v.rest))
    ELSE Fail

hashmap_key(k, acc) ==
    IF ~k.ok \/ k.rest = <<>> \/ k.rest[1] # P(":") THEN Fail
    ELSE hashmap_insert(k.val, parse_string(Tail(k.rest)), acc)

hashmap_entries(ts, first, acc) ==
    IF ts = <<>> THEN Fail
    ELSE IF first /\ ts[1] = P("}") THEN Parsed(acc, Tail(ts))
    ELSE hashmap_key(parse_string(ts), acc)

parse_hashmap(ts) ==
    IF ts # <<>> /\ ts[1] = P("{")
    THEN hashmap_entries(Tail(ts), TRUE, <<>>)
    ELSE Fail

\* #[serde(alias = "drvPath")] pub drv_path
DrvPathKeys == {"drv_path", "drvPath"}

\* The end of visit_map: both fields are required.
derivation_finish(drv, outs, rest) ==
    IF drv.some /\ outs.some
    THEN Parsed([drv_path |-> drv.val, outputs |-> outs.val], rest)
    ELSE Fail

RECURSIVE derivation_fields(_, _, _, _)
\* The derived visit_map of Derivation: a field met twice is an error, a
\* key that is no field is skipped with its value.
derivation_next(v, drv, outs) ==
    IF ~v.ok \/ v.rest = <<>> THEN Fail
    ELSE IF v.rest[1] = P(",") THEN derivation_fields(Tail(v.rest), FALSE, drv, outs)
    ELSE IF v.rest[1] = P("}") THEN derivation_finish(drv, outs, Tail(v.rest))
    ELSE Fail

derivation_drv_path(v, drv, outs) ==
    IF drv.some THEN Fail ELSE derivation_next(v, Some(v.val), outs)

derivation_outputs(v, drv, outs) ==
    IF outs.some THEN Fail ELSE derivation_next(v, drv, Some(v.val))

derivation_key(k, drv, outs) ==
    IF ~k.ok \/ k.rest = <<>> \/ k.rest[1] # P(":") THEN Fail
    ELSE IF k.val \in DrvPathKeys
    THEN derivation_drv_path(parse_string(Tail(k.rest)), drv, outs)
    ELSE IF k.val = "outputs"
    THEN derivation_outputs(parse_hashmap(Tail(k.rest)), drv, outs)
    ELSE derivation_next(skip_value(Tail(k.rest)), drv, outs)

derivation_fields(ts, first, drv, outs) ==
    IF ts = <<>> THEN Fail
    ELSE IF first /\ ts[1] = P("}") THEN derivation_finish(drv, outs, Tail(ts))
    ELSE derivation_key(parse_string(ts), drv, outs)

\* The derived visit_seq of Derivation: [drv_path, outputs], exactly.
derivation_seq_outputs(d, o) ==
    IF ~o.ok \/ o.rest = <<>> \/ o.rest[1] # P("]") THEN Fail
    ELSE Parsed([drv_path |-> d.val, outputs |-> o.val], Tail(o.rest))

derivation_seq_drv_path(d) ==
    IF ~d.ok \/ d.rest = <<>> \/ d.rest[1] # P(",") THEN Fail
    ELSE derivation_seq_outputs(d, parse_hashmap(Tail(d.rest)))

derivation_seq(ts) == derivation_seq_drv_path(parse_string(ts))

parse_derivation(ts) ==
    IF ts = <<>> THEN Fail
    ELSE IF ts[1] = P("{") THEN derivation_fields(Tail(ts), TRUE, None, None)
    ELSE IF ts[1] = P("[") THEN derivation_seq(Tail(ts))
    ELSE Fail

RECURSIVE vec_elements(_, _, _)
\* A decoder that drops the elements it cannot decode.
vec_push_lenient(d, s, acc) ==
    IF ~s.ok \/ s.rest = <<>> THEN Fail
    ELSE IF s.rest[1] = P(",")
    THEN vec_elements(Tail(s.rest), FALSE, IF d.ok THEN Append(acc, d.val) ELSE acc)
    ELSE IF s.rest[1] = P("]")
    THEN Parsed(IF d.ok THEN Append(acc, d.val) ELSE acc, Tail(s.rest))
    ELSE Fail

vec_elements_lenient(ts, first, acc) ==
    IF ts = <<>> THEN Fail
    ELSE IF first /\ ts[1] = P("]") THEN Parsed(acc, Tail(ts))
    ELSE vec_push_lenient(parse_derivation(ts), skip_value(ts), acc)

\* Vec<Derivation>: the elements in the order of the array; the first one
\* that does not decode fails the whole.
vec_push(d, acc) ==
    IF ~d.ok \/ d.rest = <<>> THEN Fail
    ELSE IF d.rest[1] = P(",") THEN vec_elements(Tail(d.rest), FALSE, Append(acc, d.val))
    ELSE IF d.rest[1] = P("]") THEN Parsed(Append(acc, d.val), Tail(d.rest))
    ELSE Fail

vec_elements(ts, first, acc) ==
    IF ts = <<>> THEN Fail
    ELSE IF first /\ ts[1] = P("]") THEN Parsed(acc, Tail(ts))
    ELSE vec_push(parse_derivation(ts), acc)

\* The end of the input: nothing but the value may be there.
from_slice_end(r) == IF r.ok /\ r.rest = <<>> THEN r ELSE Fail

\* serde_json::from_slice: one array, and nothing after it.
from_slice(ts) ==
    IF ts # <<>> /\ ts[1] = P("[")
    THEN from_slice_end(vec_elements(Tail(ts), TRUE, <<>>))
    ELSE Fail

\* A lookup that answers with any output when there is one.
out_any(d) ==
    IF DOMAIN d.outputs # {}
    THEN Some(d.outputs[CHOOSE k \in DOMAIN d.outputs :
                            k = "out" \/ "out" \notin DOMAIN d.outputs])
    ELSE None

\* Derivation::out
out(d) == IF "out" \in DOMAIN d.outputs THEN Some(d.outputs["out"]) ELSE None

-----------------------------------------------------------------------------
(* Config::build.                                                          *)

Ok(drvs) == [kind |-> "Ok", drvs |-> drvs]

Err(e) == [kind |-> "Err", err |-> e]

\* A classification that looks at stdout before it looks at the status.
Outcome_content_first(tl) ==
    IF ~tl.launch THEN Err("BuildFailed")
    ELSE LET r == from_slice(tl.stdout)
         IN  IF r.ok THEN Ok(r.val)
             ELSE IF tl.status # 0 THEN Err("BuildFailed")
             ELSE Err("UnknownOutput")

\* cmd.output() and what build() makes of it.
Outcome(tl) ==
    IF ~tl.launch THEN Err("BuildFailed")
    ELSE IF tl.status # 0 THEN Err("BuildFailed")
    ELSE LET r == from_slice(tl.stdout)
         IN  IF r.ok THEN Ok(r.val) ELSE Err("UnknownOutput")

build ==
    /\ LET nix == is_nix_available(env)
       IN  IF ~nix.some
           THEN /\ cmd' = None
                /\ hints' = <<>>
                /\ result' = Err("NixNotAvailable")
           ELSE /\ cmd' = Some([program |-> nix.val,
                                current_dir |-> env.cwd,
                                args |-> BuildArgs(target, arg_exprs, arg_strs, impure)])
                /\ hints' = TargetHints(env, target)
                /\ result' = Outcome(tool)
    /\ pc' = "built"
    /\ UNCHANGED <<target, arg_exprs, arg_strs, impure, calls, env, tool>>

-----------------------------------------------------------------------------
(* The inputs: setter arguments, environments, tool behaviours.            *)

ArgPairs ==
    { <<S("pkgs"), S("import <nixpkgs> {}")>>, <<S("name"), S("not-hello")>> }

Files == { S("hello.nix"), <<"/", "w", "/", "abs.nix">> }

Flakes == { <<"nixpkgs", "#", "hello">>, <<"sub", "#", "pkg">> }

LocalFlakes == { <<"sub", "#", "pkg">>, <<"other", "#", "pkg">>, S("nixpkgs") }

Exprs == { S("{pkgs}: pkgs.hello") }

W == <<"/", "w">>

WHash == <<"/", "w", "#", "x">>

BinDir == <<"/", "bin">>

UsrBinDir == <<"/", "usr", "/", "bin">>

OptNix == <<"/", "opt", "/", "nix">>

\* An environment in which the tool is found on PATH.
PlainEnv ==
    [NIX |-> None, PATH |-> <<BinDir>>, fs |-> {W, join(BinDir, NIX_BIN_NAME)}, cwd |-> W]

\* Working directories with and without a '#' in their name, and the local
\* flake directories that may exist beside them.
HintDirs(cwd) ==
    { d \in SUBSET {W, join(W, S("sub")), join(W, S("other")),
                    WHash, join(WHash, S("sub"))} :
        /\ (d \cap {join(W, S("sub")), join(W, S("other"))} # {} => W \in d)
        /\ (join(WHash, S("sub")) \in d => WHash \in d \/ cwd = WHash) }

HintEnvsIn(cwd) ==
    { [NIX |-> None, PATH |-> <<BinDir>>,
       fs |-> {join(BinDir, NIX_BIN_NAME), cwd} \cup d, cwd |-> cwd] : d \in HintDirs(cwd) }

HintEnvs == HintEnvsIn(W) \cup HintEnvsIn(WHash)

\* Overrides that are unset, empty, present and missing; search paths that
\* hold the binary in no, one or two places.
LocateEnvs ==
    { [NIX |-> nix, PATH |-> path, fs |-> {W} \cup bins, cwd |-> W] :
        nix \in {None, Some(<<>>), Some(OptNix), Some(join(UsrBinDir, NIX_BIN_NAME))},
        path \in {<<>>, <<BinDir>>, <<BinDir, UsrBinDir>>, <<UsrBinDir, BinDir>>},
        bins \in SUBSET {OptNix, join(BinDir, NIX_BIN_NAME), join(UsrBinDir, NIX_BIN_NAME)} }

Member(k, v) == << <<k, v>> >>

Outputs(members) == Member("outputs", JObj(members))

DrvParts ==
    { <<>>,
      Member("drv_path", JStr("/nix/store/a.drv")),
      Member("drvPath", JStr("/nix/store/b.drv")),
      Member("drv_path", JNum),
      Member("drv_path", JStr("/nix/store/a.drv"))
          \o Member("drvPath", JStr("/nix/store/b.drv")) }

OutParts ==
    { <<>>,
      Outputs(Member("out", JStr("/nix/store/a"))),
      Outputs(Member("dev", JStr("/nix/store/a-dev"))),
      Outputs(Member("dev", JStr("/nix/store/a-dev")) \o Member("out", JStr("/nix/store/a"))),
      Outputs(Member("out", JStr("/nix/store/a")) \o Member("out", JStr("/nix/store/b"))),
      Outputs(Member("out", JNum)) }

\* The array elements the tool may print: objects with every combination of
\* the parts above, an object with its fields in the other order, one with a
\* field the decoder does not know, the array form of a record, and a scalar.
Elems ==
    { JObj(d \o o) : d \in DrvParts, o \in OutParts }
    \cup { JObj(Outputs(Member("out", JStr("/nix/store/a")))
                    \o Member("drvPath", JStr("/nix/store/b.drv"))),
           JObj(Member("system", JArr(<<JStr("x86_64-linux"), JObj(<<>>)>>))
                    \o Member("drv_path", JStr("/nix/store/a.drv"))
                    \o Outputs(Member("dev", JStr("/nix/store/a-dev")))),
           JArr(<<JStr("/nix/store/a.drv"), JObj(Member("out", JStr("/nix/store/a")))>>),
           JNum }

RECURSIVE SeqsUpTo(_, _)
SeqsUpTo(set, n) ==
    IF n = 0 THEN {<<>>}
    ELSE LET shorter == SeqsUpTo(set, n - 1)
         IN  shorter \cup {Append(q, x) : q \in shorter, x \in set}

\* The documents: arrays of up to n elements, and two that are no array at
\* all.
Docs(n) ==
    { JArr(q) : q \in SeqsUpTo(Elems, n) }
    \cup { JObj(Member("drv_path", JStr("/nix/store/a.drv"))
                    \o Outputs(Member("out", JStr("/nix/store/a")))),
           JStr("error") }

Behaviour(launch, status, doc, damage) ==
    [launch |-> launch, status |-> status, doc |-> doc, damage |-> damage,
     stdout |-> Damaged(Render(doc), damage)]

GoodDoc ==
    JArr(<<JObj(Member("drvPath", JStr("/nix/store/b.drv"))
                    \o Outputs(Member("out", JStr("/nix/store/a"))))>>)

\* The tool runs and prints every document, whole or cut short; it prints a
\* stray token or nothing at all; or it fails, or cannot be launched,
\* whatever it would have printed.
Behaviours(n) ==
    { Behaviour(TRUE, 0, doc, damage) : doc \in Docs(n), damage \in {"none", "cut"} }
    \cup { Behaviour(TRUE, 0, doc, damage) :
               doc \in Docs(1), damage \in {"extra", "empty"} }
    \cup { Behaviour(launch, status, doc, damage) :
               launch \in BOOLEAN, status \in {0, 1, 101},
               doc \in {JArr(<<>>), GoodDoc}, damage \in {"none", "cut"} }

-----
(* Specifications.                                                         *)

InitWith(envs, behaviours) ==
    /\ target = NixTarget_default
    /\ arg_exprs = <<>>
    /\ arg_strs = <<>>
    /\ impure = FALSE
    /\ calls = <<>>
    /\ pc = "config"
    /\ env \in envs
    /\ tool \in behaviours
    /\ cmd = None
    /\ hints = <<>>
    /\ result = [kind |-> "None"]

\* The configuration engine: every setter, then build, with the tool found.
Init == InitWith({PlainEnv}, {Behaviour(TRUE, 0, GoodDoc, "none"), Behaviour(TRUE, 1, GoodDoc, "none")})

Next ==
    \/ new
    \/ \E p \in ArgPairs : arg_expr(p[1], p[2])
    \/ \E p \in ArgPairs : arg_str(p[1], p[2])
    \/ \E f \in Files : target_file(f)
    \/ \E f \in Flakes : target_flake(f)
    \/ \E x \in Exprs : target_expr(x)
    \/ \E b \in BOOLEAN : set_impure(b)
    \/ build

Spec == Init /\ [][Next]_vars

\* The locator: build under every environment.
InitLocate == InitWith(LocateEnvs, {Behaviour(TRUE, 0, GoodDoc, "none")})

NextLocate == build

SpecLocate == InitLocate /\ [][NextLocate]_vars

\* The executor and the decoder: build under every tool behaviour.
InitExec == InitWith({PlainEnv}, Behaviours(MaxElems))

NextExec == build

SpecExec == InitExec /\ [][NextExec]_vars

\* The change-tracking hints: the target setters, then build, under every
\* working directory.
InitHints == InitWith(HintEnvs, {Behaviour(TRUE, 0, GoodDoc, "none")})

NextHints ==
    \/ \E f \in Files : target_file(f)
    \/ \E f \in LocalFlakes : target_flake(f)
    \/ \E x \in Exprs : target_expr(x)
    \/ build

SpecHints == InitHints /\ [][NextHints]_vars

-----------------------------------------------------------------------------
(* What the claims speak of: the history of calls and the printed document.*)

Built == pc = "built" /\ cmd.some

Argv == cmd.val.args

CallsOf(ops) == SelectSeq(calls, LAMBDA c : c.op \in ops)

TargetCalls == CallsOf({"target_file", "target_flake", "target_expr"})

ExprCalls == CallsOf({"arg_expr"})

StrCalls == CallsOf({"arg_str"})

ImpureCalls == CallsOf({"impure"})

\* The tokens a target setter call stands for.
CallTokens(c) ==
    CASE c.op = "target_file"  -> <<S("-f"), c.x>>
      [] c.op = "target_flake" -> <<c.x>>
      [] c.op = "target_expr"  -> <<S("--expr"), c.x>>

\* The tokens of the last target set, the default when none was.
WantedTargetTokens ==
    IF TargetCalls = <<>> THEN <<S("-f"), S("default.nix")>>
    ELSE CallTokens(TargetCalls[Len(TargetCalls)])

WantedImpure == ImpureCalls # <<>> /\ ImpureCalls[Len(ImpureCalls)].b

Count(a, tok) == Cardinality({i \in 1..Len(a) : a[i] = tok})

BaseTokens == <<S("build"), S("--no-link"), S("--json")>>

TrailingTokens == <<S("-L"), S("--experimental-features"), S("nix-command flakes")>>

\* Where the target tokens end in the argv of the current configuration.
TargetEnd == 3 + (IF target.kind = "Flake" THEN 1 ELSE 2)

-----------------------------------------------------------------------------
(* C1: the argv handed to the tool is build --no-link --json, the target   *)
(* tokens, one --arg triple per expression entry, one --argstr triple per  *)
(* string entry, --impure if set, and -L --experimental-features           *)
(* "nix-command flakes", in this order and with nothing else; a fresh      *)
(* Config yields build --no-link --json -f default.nix and the trailing    *)
(* flags.                                                                  *)
C1_ArgvLayout ==
    Built =>
        LET a == Argv
            tt == CASE target.kind = "Function" -> <<S("-f"), target.val>>
                    [] target.kind = "Flake"    -> <<target.val>>
                    [] target.kind = "Expr"     -> <<S("--expr"), target.val>>
            o1 == 3 + Len(tt)
            o2 == o1 + 3 * Len(arg_exprs)
            o3 == o2 + 3 * Len(arg_strs)
            o4 == o3 + (IF impure THEN 1 ELSE 0)
        IN  /\ Len(a) = o4 + 3
            /\ SubSeq(a, 1, 3) = BaseTokens
            /\ SubSeq(a, 4, o1) = tt
            /\ \A i \in 1..Len(arg_exprs) :
                   SubSeq(a, o1 + 3 * i - 2, o1 + 3 * i)
                       = <<S("--arg"), arg_exprs[i][1], arg_exprs[i][2]>>
            /\ \A i \in 1..Len(arg_strs) :
                   SubSeq(a, o2 + 3 * i - 2, o2 + 3 * i)
                       = <<S("--argstr"), arg_strs[i][1], arg_strs[i][2]>>
            /\ impure => a[o4] = S("--impure")
            /\ SubSeq(a, o4 + 1, o4 + 3) = TrailingTokens
            /\ calls = <<>> =>
                   a = <<S("build"), S("--no-link"), S("--json"), S("-f"),
                         S("default.nix"), S("-L"), S("--experimental-features"),
                         S("nix-command flakes")>>

C1_Witness ==
    /\ Built
    /\ target.kind = "Expr"
    /\ Len(arg_exprs) = 1
    /\ Len(arg_strs) = 1
    /\ impure

(* C2: the argv holds the tokens of the last target setter called and no   *)
(* token of an earlier target (nor of the default once a target was set);  *)
(* the target setters leave the argument entries and the impure flag as    *)
(* the arg_expr, arg_str and impure calls made them.                       *)
C2_TargetReplaced ==
    /\ arg_exprs = [i \in 1..Len(ExprCalls) |-> <<ExprCalls[i].x, ExprCalls[i].y>>]
    /\ arg_strs = [i \in 1..Len(StrCalls) |-> <<StrCalls[i].x, StrCalls[i].y>>]
    /\ impure = WantedImpure
    /\ Built =>
        LET a == Argv
            tc == TargetCalls
            tt == WantedTargetTokens
        IN  /\ SubSeq(a, 4, 3 + Len(tt)) = tt
            /\ \A i \in 1..Len(tc) :
                   tc[i].x # tc[Len(tc)].x => tc[i].x \notin Range(a)
            /\ tc # <<>> => S("default.nix") \notin Range(a)
            /\ S("-f") \in Range(a)
                   <=> (tc = <<>> \/ tc[Len(tc)].op = "target_file")
            /\ S("--expr") \in Range(a)
                   <=> (tc # <<>> /\ tc[Len(tc)].op = "target_expr")

C2_Witness ==
    /\ Built
    /\ Len(TargetCalls) = 2
    /\ TargetCalls[1].op = "target_file"
    /\ TargetCalls[2].op = "target_flake"
    /\ calls[2].op = "arg_expr"
    /\ calls[3].op = "target_flake"
    /\ Len(arg_exprs) = 1
    /\ S("-f") \notin Range(Argv)

(* C3: every arg_expr and arg_str call contributes one flag-name-value     *)
(* triple, duplicates included; the --arg triples stand in the order of    *)
(* the arg_expr calls, the --argstr triples in the order of the arg_str    *)
(* calls, and every --arg triple stands before every --argstr triple.      *)
C3_ArgOrder ==
    Built =>
        LET a == Argv
            ec == ExprCalls
            sc == StrCalls
            from == TargetEnd
            upto == Len(a) - 3 - (IF impure THEN 1 ELSE 0)
        IN  /\ upto - from = 3 * (Len(ec) + Len(sc))
            /\ \A i \in 1..Len(ec) :
                   SubSeq(a, from + 3 * i - 2, from + 3 * i)
                       = <<S("--arg"), ec[i].x, ec[i].y>>
            /\ \A j \in 1..Len(sc) :
                   SubSeq(a, from + 3 * Len(ec) + 3 * j - 2, from + 3 * Len(ec) + 3 * j)
                       = <<S("--argstr"), sc[j].x, sc[j].y>>
            /\ Count(a, S("--arg")) = Len(ec)
            /\ Count(a, S("--argstr")) = Len(sc)

C3_Witness ==
    /\ Built
    /\ Len(calls) = 4
    /\ calls[1].op = "arg_str"
    /\ calls[2].op = "arg_expr"
    /\ calls[3].op = "arg_str"
    /\ calls[4].op = "arg_expr"
    /\ calls[3].x = calls[1].x
    /\ calls[2].x = calls[1].x
    /\ calls[4].x # calls[2].x

(* C8: the argv holds --impure once if the last impure(b) call had b true, *)
(* and not at all if it had b false or none was made; when present it      *)
(* stands right after the last argument token (the target tokens when      *)
(* there are no arguments) and right before -L; the argv always ends with  *)
(* -L --experimental-features "nix-command flakes".                        *)
C8_ImpureFlag ==
    Built =>
        LET a == Argv
            n == Len(a)
            args == 3 * (Len(ExprCalls) + Len(StrCalls))
        IN  /\ n >= 3
            /\ SubSeq(a, n - 2, n) = TrailingTokens
            /\ Count(a, S("--impure")) = (IF WantedImpure THEN 1 ELSE 0)
            /\ WantedImpure =>
                   /\ a[n - 3] = S("--impure")
                   /\ n - 3 = TargetEnd + args + 1
            /\ ~WantedImpure => n - 3 = TargetEnd + args

C8_Witness ==
    /\ Built
    /\ Len(ImpureCalls) = 3
    /\ ImpureCalls[1].b
    /\ ~ImpureCalls[2].b
    /\ ImpureCalls[3].b
    /\ Len(arg_strs) = 1
    /\ Count(Argv, S("--impure")) = 1

-----------------------------------------------------------------------------
(* The printed document, read as a tree.                                   *)

Ran == tool.launch /\ tool.status = 0

Whole == tool.damage = "none"

IsArray == tool.doc.t = "arr"

Element(i) == tool.doc.m[i][2]

MembersOf(e, keys) == SelectSeq(e.m, LAMBDA kv : kv[1] \in keys)

Spellings == {"drv_path", "drvPath"}

AllStrings(o) == \A i \in 1..Len(o.m) : o.m[i][2].t = "str"

\* An element that lacks a required field or has a field of a wrong type,
\* or is no record at all.
Misshapen(e) ==
    \/ e.t \in {"str", "num"}
    \/ /\ e.t = "obj"
       /\ \/ MembersOf(e, Spellings) = <<>>
          \/ MembersOf(e, {"outputs"}) = <<>>
          \/ \E i \in 1..Len(e.m) : e.m[i][1] \in Spellings /\ e.m[i][2].t # "str"
          \/ \E i \in 1..Len(e.m) :
                 /\ e.m[i][1] = "outputs"
                 /\ (e.m[i][2].t # "obj" \/ ~AllStrings(e.m[i][2]))

\* An object with the derivation path once, under either spelling, and an
\* outputs object of paths.
WellFormed(e) ==
    /\ e.t = "obj"
    /\ Len(MembersOf(e, Spellings)) = 1
    /\ MembersOf(e, Spellings)[1][2].t = "str"
    /\ Len(MembersOf(e, {"outputs"})) = 1
    /\ MembersOf(e, {"outputs"})[1][2].t = "obj"
    /\ AllStrings(MembersOf(e, {"outputs"})[1][2])

PrintedDrvPath(e) == MembersOf(e, Spellings)[1][2].v

\* The path printed under "out", the last one if it is printed twice.
PrintedOut(e) ==
    LET outs == MembersOf(MembersOf(e, {"outputs"})[1][2], {"out"})
    IN  IF outs = <<>> THEN None ELSE Some(outs[Len(outs)][2].v)

(* C4: once the tool is located, build returns BuildFailed whenever the    *)
(* process cannot be launched or exits non-zero, whatever is on stdout     *)
(* (well-formed JSON included); NixNotAvailable is returned only when no   *)
(* command was made.                                                       *)
C4_StatusDecides ==
    /\ (Built /\ (~tool.launch \/ tool.status # 0)) => result = Err("BuildFailed")
    /\ (pc = "built" /\ result = Err("NixNotAvailable")) => ~cmd.some

C4_Witness ==
    /\ Built
    /\ tool.launch
    /\ tool.status = 1
    /\ Whole
    /\ IsArray
    /\ Len(tool.doc.m) = 1
    /\ WellFormed(Element(1))
    /\ result = Err("BuildFailed")

C9_DecodedInOrder ==
    (/\ Built
     /\ Ran
     /\ Whole
     /\ IsArray
     /\ \A i \in 1..Len(tool.doc.m) : WellFormed(Element(i)))
        => /\ result.kind = "Ok"
           /\ Len(result.drvs) = Len(tool.doc.m)
           /\ \A i \in 1..Len(tool.doc.m) :
                  /\ result.drvs[i].drv_path = PrintedDrvPath(Element(i))
                  /\ out(result.drvs[i]) = PrintedOut(Element(i))

C9_Witness ==
    /\ Built
    /\ Ran
    /\ Whole
    /\ IsArray
    /\ Len(tool.doc.m) = 2
    /\ WellFormed(Element(1))
    /\ WellFormed(Element(2))
    /\ MembersOf(Element(1), {"drvPath"}) # <<>>
    /\ MembersOf(Element(2), {"drv_path"}) # <<>>
    /\ PrintedOut(Element(1)) # None
    /\ PrintedOut(Element(2)) = None
    /\ MembersOf(Element(2), {"outputs"})[1][2].m # <<>>
    /\ result.kind = "Ok"
    /\ out(result.drvs[1]) = PrintedOut(Element(1))
    /\ out(result.drvs[2]) = None

-----------------------------------------------------------------------------
(* C6: with NIX set, the tool is that path if it exists and is absent      *)
(* otherwise, whatever PATH holds; with NIX unset it is the first nix      *)
(* binary on PATH, or absent; build returns NixNotAvailable exactly when   *)
(* the tool is absent, and then makes no command.                          *)
OnPath(i) == (env.PATH[i] \o <<"/", "nix">>) \in env.fs

C6_Located ==
    pc = "built" =>
        /\ (env.NIX.some /\ env.NIX.val \in env.fs)
               => cmd.some /\ cmd.val.program = env.NIX.val
        /\ (env.NIX.some /\ env.NIX.val \notin env.fs)
               => ~cmd.some
        /\ (~env.NIX.some /\ \A i \in 1..Len(env.PATH) : ~OnPath(i))
               => ~cmd.some
        /\ \A i \in 1..Len(env.PATH) :
               (~env.NIX.some /\ OnPath(i) /\ \A j \in 1..(i - 1) : ~OnPath(j))
                   => cmd.some /\ cmd.val.program = env.PATH[i] \o <<"/", "nix">>
        /\ result = Err("NixNotAvailable") <=> ~cmd.some

C6_Witness ==
    /\ pc = "built"
    /\ env.NIX.some
    /\ env.NIX.val # <<>>
    /\ env.NIX.val \notin env.fs
    /\ \E i \in 1..Len(env.PATH) : OnPath(i)
    /\ result = Err("NixNotAvailable")
    /\ ~cmd.some

-----------------------------------------------------------------------------
\* The directory a flake reference names before its '#', when it is there.
ReferencedFlake ==
    IF "#" \in Range(target.val)
    THEN LET i == CHOOSE k \in 1..Len(target.val) :
                      target.val[k] = "#" /\ \A j \in 1..(k - 1) : target.val[j] # "#"
             dir == SubSeq(target.val, 1, i - 1)
             abs == IF dir # <<>> /\ dir[1] = "/" THEN dir ELSE env.cwd \o <<"/">> \o dir
         IN  IF dir # <<>> /\ abs \in env.fs THEN Some(abs) ELSE None
    ELSE None

(* C7: for a Flake target the hint follows the reference: when the part of *)
(* the reference before '#' is a local directory, build hints at the       *)
(* flake.lock inside it, and otherwise it hints at nothing.                *)
C7_HintFollowsReference ==
    (Built /\ target.kind = "Flake") =>
        hints = (IF ReferencedFlake.some
                 THEN <<ReferencedFlake.val \o <<"/", "flake.lock">> >>
                 ELSE <<>>)

-----------------------------------------------------------------------------
Absolute(p) == p # <<>> /\ p[1] = "/"

(* C10, as stated: every hint build emits is an absolute path.             *)
C10_AllHintsAbsolute == \A i \in 1..Len(hints) : Absolute(hints[i])

(* C10, amended: the hint of a Function target is the configured file      *)
(* path as it was given, absolute only when that path is; every hint of a  *)
(* Flake target is an absolute path; an Expression target has no hint.     *)
C10_HintsAsConfigured ==
    Built =>
        /\ target.kind = "Function" => hints = <<target.val>>
        /\ target.kind = "Flake" => \A i \in 1..Len(hints) : Absolute(hints[i])
        /\ target.kind = "Expr" => hints = <<>>

C10_Witness ==
    /\ Built
    /\ target.kind = "Function"
    /\ calls # <<>>
    /\ ~Absolute(target.val)
    /\ hints = <<target.val>>

=============================================================================
